---- MODULE Spec2Model ----
(***************************************************************************)
(* Model of src/target_info.rs (probe-run): TargetInfo::new selects the    *)
(* RAM region that holds the initial stack pointer and then scans the ELF  *)
(* sections to derive the range of valid stack-pointer values.             *)
(*                                                                         *)
(* Addresses are u32 in the source.  TLC's integers are 32-bit signed, so  *)
(* the machine word is modelled with AddrBits bits, the largest width for  *)
(* which the sum of two words is still a TLC integer; every address the    *)
(* source or the specification mentions (0x2000_0000 ...) fits in it, and  *)
(* arithmetic overflows at 2^AddrBits exactly as u32 does at 2^32.         *)
(* Overflow of +/- panics when the crate is built with overflow checks     *)
(* (debug profile) and wraps otherwise (release profile); the build is an  *)
(* input of the model (overflow_checks).                                   *)
(***************************************************************************)
EXTENDS Integers, Sequences, FiniteSets, TLC

VARIABLES
    memory_map,             \* probe_target.memory_map: sequence of regions
    initial_stack_pointer,  \* elf.vector_table.initial_stack_pointer
    sections,               \* elf.sections(): sequence of [address, size]
    overflow_checks,        \* TRUE: debug build (overflow panics), FALSE: release (wraps)
    pc,                     \* position inside TargetInfo::new
    active_ram_region,      \* Option<RamRegion>
    stack_range,            \* the `mut stack_range` local of extract_stack_info
    idx,                    \* position of the `for section in elf.sections()` loop
    stack_info,             \* Option<StackInfo>
    call                    \* a direct call of is_superset: arguments and returned value

vars == <<memory_map, initial_stack_pointer, sections, overflow_checks, pc,
          active_ram_region, stack_range, idx, stack_info, call>>

----------------------------------------------------------------------------
(* Machine words *)

AddrBits == 30
Modulus == 2 ^ AddrBits
MaxWord == Modulus - 1

\* a u64 value (section.address(), section.size()) converts with try_into()
\* iff it is at most u32::MAX
FitsWord(x) == x < Modulus

AddOverflows(a, b) == a + b >= Modulus
WrappingAdd(a, b) == (a + b) % Modulus
SubOverflows(a, b) == a < b
WrappingSub(a, b) == (a - b + Modulus) % Modulus

----------------------------------------------------------------------------
(* Ranges.  A Range is half-open (start..end), a RangeInclusive is         *)
(* start..=end; both are records [start, end].                             *)

Rng(a, b) == [start |-> a, end |-> b]

\* core::ops::Range::contains
RangeContains(r, x) == r.start <= x /\ x < r.end

\* core::ops::RangeInclusive::contains
RangeInclusiveContains(r, x) == r.start <= x /\ x <= r.end

is_superset_strict(superset, subset) ==
    /\ subset.start > superset.start
    /\ subset.start <= superset.end
    /\ subset.end <= superset.end
    /\ subset.end >= superset.start

is_superset(superset, subset) ==
    /\ subset.start >= superset.start
    /\ subset.start <= superset.end
    /\ subset.end <= superset.end
    /\ subset.end >= superset.start

----------------------------------------------------------------------------
(* Option values *)

NoRegion == [kind |-> "None", start |-> 0, end |-> 0]
Ram(a, b) == [kind |-> "Ram", start |-> a, end |-> b]
Nvm(a, b) == [kind |-> "Nvm", start |-> a, end |-> b]

NoRange == Rng(0, 0)
NoneInfo == [tag |-> "None", range |-> NoRange, data_below_stack |-> FALSE]
PanicInfo == [tag |-> "Panic", range |-> NoRange, data_below_stack |-> FALSE]
SomeInfo(r, d) == [tag |-> "Some", range |-> r, data_below_stack |-> d]

----------------------------------------------------------------------------
(* extract_active_ram_region *)

\* the closure of find_map: does this region match?
RegionMatches_half_open(region, sp) ==
    /\ region.kind = "Ram"
    /\ RangeContains(Rng(region.start, region.end), sp)

RegionMatches(region, sp) ==
    /\ region.kind = "Ram"
    /\ RangeInclusiveContains(Rng(region.start, region.end), sp)

RECURSIVE find_map(_, _, _)
find_map(map, i, sp) ==
    IF i > Len(map) THEN NoRegion
    ELSE IF RegionMatches(map[i], sp) THEN map[i]
    ELSE find_map(map, i + 1, sp)

extract_active_ram_region(map, sp) == find_map(map, 1, sp)

----------------------------------------------------------------------------
(* extract_stack_info, one loop iteration at a time.  A scan state is      *)
(* [tag, range]: "Scan" (loop continues with range), "None" (return None), *)
(* "Panic".                                                                *)

Scanning(r) == [tag |-> "Scan", range |-> r]
ScanNone == [tag |-> "None", range |-> NoRange]
ScanPanic == [tag |-> "Panic", range |-> NoRange]

\* line 73: ram_range.start..=initial_stack_pointer - 1
InitialStackRange(ram_range, sp, checks) ==
    IF SubOverflows(sp, 1)
    THEN IF checks THEN ScanPanic ELSE Scanning(Rng(ram_range.start, WrappingSub(sp, 1)))
    ELSE Scanning(Rng(ram_range.start, sp - 1))

\* lines 77-79
SkipsSection_never(size) == FALSE

SkipsSection(size) == size = 0

\* lines 81-83: lowest_address..=lowest_address + size - 1, as
\* [tag |-> "Ok"/"Panic", range]
SectionRange(lowest_address, size, checks) ==
    IF AddOverflows(lowest_address, size) /\ checks
    THEN [tag |-> "Panic", range |-> NoRange]
    ELSE LET sum == WrappingAdd(lowest_address, size) IN
         IF SubOverflows(sum, 1) /\ checks
         THEN [tag |-> "Panic", range |-> NoRange]
         ELSE [tag |-> "Ok", range |-> Rng(lowest_address, WrappingSub(sum, 1))]

\* line 86
SectionInRam(ram_range, section_range) == RangeContains(ram_range, section_range.end)

\* line 96: section_range.end() + 1..=*stack_range.end()
Shrink_to_section_end(range, section_range, checks) ==
    Scanning(Rng(section_range.end, range.end))

Shrink(range, section_range, checks) ==
    IF AddOverflows(section_range.end, 1)
    THEN IF checks THEN ScanPanic ELSE Scanning(Rng(WrappingAdd(section_range.end, 1), range.end))
    ELSE Scanning(Rng(section_range.end + 1, range.end))

\* lines 86-98
Classify_no_superset_check(ram_range, range, section_range, checks) ==
    IF SectionInRam(ram_range, section_range)
    THEN IF RangeInclusiveContains(section_range, range.end) THEN ScanNone
         ELSE Shrink(range, section_range, checks)
    ELSE Scanning(range)

Classify(ram_range, range, section_range, checks) ==
    IF SectionInRam(ram_range, section_range)
    THEN IF RangeInclusiveContains(section_range, range.end) THEN ScanNone
         ELSE IF is_superset(range, section_range) THEN Shrink(range, section_range, checks)
         ELSE Scanning(range)
    ELSE Scanning(range)

\* lines 75-99: the body of the for loop for one section
ScanStep(ram_range, range, section, checks) ==
    IF ~FitsWord(section.size) THEN ScanPanic
    ELSE IF SkipsSection(section.size) THEN Scanning(range)
    ELSE IF ~FitsWord(section.address) THEN ScanPanic
    ELSE LET sr == SectionRange(section.address, section.size, checks) IN
         IF sr.tag = "Panic" THEN ScanPanic
         ELSE Classify(ram_range, range, sr.range, checks)

\* line 102
DataBelowStack_never(range, ram_range) == FALSE

DataBelowStack(range, ram_range) == range.start > ram_range.start

\* lines 101-104
MakeStackInfo(range, ram_range) == SomeInfo(range, DataBelowStack(range, ram_range))

RECURSIVE ScanFrom(_, _, _, _, _)
ScanFrom(ram_range, st, secs, i, checks) ==
    IF st.tag = "Panic" THEN PanicInfo
    ELSE IF st.tag = "None" THEN NoneInfo
    ELSE IF i > Len(secs) THEN MakeStackInfo(st.range, ram_range)
    ELSE ScanFrom(ram_range, ScanStep(ram_range, st.range, secs[i], checks), secs, i + 1, checks)

\* the whole function, lines 64-105
extract_stack_info(secs, sp, ram_region, checks) ==
    IF ram_region.kind = "None" THEN NoneInfo
    ELSE LET ram_range == Rng(ram_region.start, ram_region.end) IN
         ScanFrom(ram_range, InitialStackRange(ram_range, sp, checks), secs, 1, checks)

----------------------------------------------------------------------------
(* Inputs *)

MaxSections == 2

RamMain == Ram(536870912, 536875008)     \* 0x2000_0000 .. 0x2000_1000
RamAlt == Ram(536872960, 536879104)      \* 0x2000_0800 .. 0x2000_2000, overlaps RamMain
RamZero == Ram(0, 512)                   \* RAM mapped at address 0
Flash == Nvm(0, 512)

MemoryMaps ==
    { <<>>, <<Flash, RamMain>>, <<RamMain, RamAlt>>, <<RamAlt, RamMain>>,
      <<Flash, RamZero>>, <<RamZero, RamMain>> }

StackPointers ==
    { 0, 512, 536870912, 536872960, 536875008, 805306368 }

Sec(a, s) == [address |-> a, size |-> s]

SectionInputs ==
    { Sec(536870912, 256),       \* .data at the bottom of RamMain
      Sec(536871168, 256),       \* directly above it
      Sec(536871040, 256),       \* overlaps both
      Sec(536870656, 512),       \* straddles the start of RamMain
      Sec(536874752, 256),       \* the top 256 bytes of RamMain
      Sec(536874752, 512),       \* straddles the end of RamMain
      Sec(536870912, 0),         \* empty, in RAM
      Sec(Modulus, 0),           \* empty, address beyond 32-bit
      Sec(0, 256),               \* bottom of RamZero
      Sec(256, Modulus - 128),   \* address + size wraps around
      Sec(Modulus - 256, 256),   \* ends at the last address
      Sec(0, Modulus) }          \* size beyond 32-bit

NoCall == [superset |-> NoRange, subset |-> NoRange, returned |-> FALSE, result |-> FALSE]

SeqsUpTo(S, n) == UNION { [1..k -> S] : k \in 0..n }

----------------------------------------------------------------------------
(* TargetInfo::new *)

Init ==
    /\ memory_map \in MemoryMaps
    /\ initial_stack_pointer \in StackPointers
    /\ sections \in SeqsUpTo(SectionInputs, MaxSections)
    /\ overflow_checks \in BOOLEAN
    /\ pc = "new"
    /\ active_ram_region = NoRegion
    /\ stack_range = NoRange
    /\ idx = 0
    /\ stack_info = NoneInfo
    /\ call = NoCall

\* lines 24-25
SelectRegion ==
    /\ pc = "new"
    /\ active_ram_region' = extract_active_ram_region(memory_map, initial_stack_pointer)
    /\ pc' = "extract_stack_info"
    /\ UNCHANGED <<memory_map, initial_stack_pointer, sections, overflow_checks,
                   stack_range, idx, stack_info, call>>

\* lines 69-73
EnterStackInfo ==
    /\ pc = "extract_stack_info"
    /\ IF active_ram_region.kind = "None"
       THEN /\ pc' = "done"
            /\ stack_info' = NoneInfo
            /\ UNCHANGED <<stack_range, idx>>
       ELSE LET st == InitialStackRange(Rng(active_ram_region.start, active_ram_region.end),
                                        initial_stack_pointer, overflow_checks) IN
            IF st.tag = "Panic"
            THEN /\ pc' = "panicked"
                 /\ stack_info' = PanicInfo
                 /\ UNCHANGED <<stack_range, idx>>
            ELSE /\ pc' = "scan"
                 /\ stack_range' = st.range
                 /\ idx' = 1
                 /\ UNCHANGED stack_info
    /\ UNCHANGED <<memory_map, initial_stack_pointer, sections, overflow_checks,
                   active_ram_region, call>>

\* lines 75-99, one iteration
ScanSection ==
    /\ pc = "scan"
    /\ idx <= Len(sections)
    /\ LET st == ScanStep(Rng(active_ram_region.start, active_ram_region.end),
                          stack_range, sections[idx], overflow_checks) IN
       IF st.tag = "Panic"
       THEN /\ pc' = "panicked"
            /\ stack_info' = PanicInfo
            /\ UNCHANGED <<stack_range, idx>>
       ELSE IF st.tag = "None"
       THEN /\ pc' = "done"
            /\ stack_info' = NoneInfo
            /\ UNCHANGED <<stack_range, idx>>
       ELSE /\ stack_range' = st.range
            /\ idx' = idx + 1
            /\ UNCHANGED <<pc, stack_info>>
    /\ UNCHANGED <<memory_map, initial_stack_pointer, sections, overflow_checks,
                   active_ram_region, call>>

\* lines 100-104
FinishScan ==
    /\ pc = "scan"
    /\ idx > Len(sections)
    /\ stack_info' = MakeStackInfo(stack_range,
                                   Rng(active_ram_region.start, active_ram_region.end))
    /\ pc' = "done"
    /\ UNCHANGED <<memory_map, initial_stack_pointer, sections, overflow_checks,
                   active_ram_region, stack_range, idx, call>>

Next == SelectRegion \/ EnterStackInfo \/ ScanSection \/ FinishScan

Spec == Init /\ [][Next]_vars

----------------------------------------------------------------------------
(* is_superset called directly, as the unit test of lines 120-134 does *)

MaxPoint == 11

InitSuperset ==
    /\ memory_map = <<>>
    /\ initial_stack_pointer = 0
    /\ sections = <<>>
    /\ overflow_checks = FALSE
    /\ pc = "is_superset"
    /\ active_ram_region = NoRegion
    /\ stack_range = NoRange
    /\ idx = 0
    /\ stack_info = NoneInfo
    /\ \E a1, a2, b1, b2 \in 0..MaxPoint :
         /\ b1 <= b2
         /\ call = [superset |-> Rng(a1, a2), subset |-> Rng(b1, b2),
                    returned |-> FALSE, result |-> FALSE]

CallIsSuperset ==
    /\ pc = "is_superset"
    /\ ~call.returned
    /\ call' = [call EXCEPT !.returned = TRUE,
                            !.result = is_superset(call.superset, call.subset)]
    /\ UNCHANGED <<memory_map, initial_stack_pointer, sections, overflow_checks, pc,
                   active_ram_region, stack_range, idx, stack_info>>

SpecSuperset == InitSuperset /\ [][CallIsSuperset]_vars

\* inputs of a well-formed 32-bit image: the stack pointer is not 0 and every
\* section lies inside the address space (its last byte is at most MaxWord)
ValidSection(s) == FitsWord(s.address) /\ s.address + s.size <= Modulus
InitPlain ==
    /\ Init
    /\ initial_stack_pointer > 0
    /\ \A i \in 1..Len(sections) : ValidSection(sections[i])
SpecPlain == InitPlain /\ [][Next]_vars

Finished == pc \in {"done", "panicked"}

----------------------------------------------------------------------------
(* Vocabulary of the properties.  Spans are the mathematical ones          *)
(* (address .. address + size - 1, no wrap-around).                        *)

NonEmpty(s) == s.size > 0
Span(s) == Rng(s.address, s.address + s.size - 1)
Overlap(r1, r2) == r1.start <= r2.end /\ r2.start <= r1.end
RamRange == Rng(active_ram_region.start, active_ram_region.end)
HasRegion == active_ram_region.kind = "Ram"
TopOfStack == initial_stack_pointer - 1
NonEmptyIdx == { i \in 1..Len(sections) : NonEmpty(sections[i]) }

\* C1: whenever an active RAM region is found and some non-empty section's
\* span contains SP - 1, extract_stack_info returns no Stack Info.
C1_SpInsideSectionGivesNone ==
    (Finished /\ HasRegion
        /\ \E i \in NonEmptyIdx : RangeInclusiveContains(Span(sections[i]), TopOfStack))
    => stack_info.tag # "Some"

\* C2: whenever a Stack Info is returned, no address of its range is
\* occupied by a non-empty section.
C2_RangeFreeOfSections ==
    (Finished /\ stack_info.tag = "Some")
    => \A i \in NonEmptyIdx :
         ~(stack_info.range.start <= stack_info.range.end
           /\ Overlap(Span(sections[i]), stack_info.range))

\* C3: whenever a Stack Info exists, its range satisfies low <= high.
C3_LowAtMostHigh ==
    (Finished /\ stack_info.tag = "Some")
    => stack_info.range.start <= stack_info.range.end

Perms(n) == { p \in [1..n -> 1..n] : \A i, j \in 1..n : p[i] = p[j] => i = j }
Permute(secs, p) == [i \in 1..Len(secs) |-> secs[p[i]]]

\* a section with at least one byte inside the active RAM region
RamResident(s) == NonEmpty(s) /\ Span(s).start < RamRange.end /\ RamRange.start <= Span(s).end
NoRamOverlap ==
    \A i, j \in 1..Len(sections) :
        (i # j /\ RamResident(sections[i]) /\ RamResident(sections[j]))
        => ~Overlap(Span(sections[i]), Span(sections[j]))

\* C4: for a fixed RAM region and stack pointer, and sections of which no two
\* RAM-resident ones overlap, every permutation of the section order gives
\* the same outcome of extract_stack_info.
C4_OrderIndependent ==
    (Finished /\ HasRegion /\ NoRamOverlap)
    => \A p \in Perms(Len(sections)) :
         extract_stack_info(Permute(sections, p), initial_stack_pointer,
                            active_ram_region, overflow_checks) = stack_info

\* the end-to-end example: RAM [0x2000_0000, 0x2000_0FFF], SP 0x2000_1000,
\* one section .data at 0x2000_0000 of size 0x100
EndToEndInput ==
    /\ active_ram_region = RamMain
    /\ initial_stack_pointer = 536875008
    /\ sections = <<Sec(536870912, 256)>>

\* C5 as stated: the example resolves to [0x2000_0100, 0x2000_0FFE] with
\* data_below_stack = false.
C5_EndToEnd_AsStated ==
    (Finished /\ EndToEndInput)
    => stack_info = SomeInfo(Rng(536871168, 536875006), FALSE)

\* C5 amended: the example resolves to [0x2000_0100, 0x2000_0FFF] with
\* data_below_stack = true.
C5_EndToEnd ==
    (Finished /\ EndToEndInput)
    => stack_info = SomeInfo(Rng(536871168, 536875007), TRUE)

C5_Witness == Finished /\ EndToEndInput /\ pc = "done"

\* C6: a single non-empty section [L, H] with RAM.start <= L and H < SP - 1
\* gives a Stack Info with range [H + 1, SP - 1] and data_below_stack = true.
OneSectionBelow(s) ==
    /\ RamRange.start <= Span(s).start
    /\ Span(s).end < TopOfStack

C6_SingleSectionBelow ==
    (Finished /\ HasRegion /\ Cardinality(NonEmptyIdx) = 1)
    => \A i \in NonEmptyIdx :
         OneSectionBelow(sections[i])
         => stack_info = SomeInfo(Rng(Span(sections[i]).end + 1, TopOfStack), TRUE)

C6_Witness ==
    /\ Finished /\ HasRegion /\ Cardinality(NonEmptyIdx) = 1
    /\ \E i \in NonEmptyIdx :
         /\ OneSectionBelow(sections[i])
         /\ Span(sections[i]).start = RamRange.start
    /\ stack_info.tag = "Some"

\* C7: the active RAM region is the first region of the memory map that is
\* RAM and whose inclusive span [start, end] contains the stack pointer; there
\* is none exactly when no RAM region contains it, and then TargetInfo::new
\* completes without an error, with no Stack Info.
MatchingIdx ==
    { i \in 1..Len(memory_map) :
        /\ memory_map[i].kind = "Ram"
        /\ memory_map[i].start <= initial_stack_pointer
        /\ initial_stack_pointer <= memory_map[i].end }

C7_FirstMatchingRamRegion ==
    (pc \in {"extract_stack_info", "scan", "done", "panicked"})
    => /\ MatchingIdx # {}
          => \E i \in MatchingIdx :
               /\ \A j \in MatchingIdx : i <= j
               /\ active_ram_region = memory_map[i]
       /\ MatchingIdx = {}
          => /\ active_ram_region = NoRegion
             /\ pc # "panicked"
             /\ pc = "done" => stack_info = NoneInfo
       /\ active_ram_region = NoRegion => MatchingIdx = {}

C7_Witness ==
    /\ pc = "done"
    /\ Cardinality(MatchingIdx) = 2
    /\ memory_map[1].kind = "Ram"
    /\ initial_stack_pointer = memory_map[1].end
    /\ active_ram_region = memory_map[1]

\* C8: for A = [a1, a2] and a non-empty B = [b1, b2], is_superset(A, B)
\* returns true iff every point of B lies in A.
C8_SupersetIffAllPointsInside ==
    call.returned
    => (call.result
        <=> \A x \in call.subset.start..call.subset.end :
              call.superset.start <= x /\ x <= call.superset.end)

C8_Witness ==
    /\ call.returned
    /\ call.superset = Rng(0, 10)
    /\ call.subset = Rng(5, 10)
    /\ call.result

\* C9: zero-size sections never affect the outcome of extract_stack_info:
\* removing all of them, or inserting one more at any address and any
\* position, leaves it unchanged.
InsertAt(secs, k, z) == SubSeq(secs, 1, k) \o <<z>> \o SubSeq(secs, k + 1, Len(secs))
EmptySections == { Sec(a, 0) : a \in {0, 536870912, 536875007, MaxWord, Modulus} }

C9_EmptySectionsIgnored ==
    Finished
    => /\ extract_stack_info(SelectSeq(sections, NonEmpty), initial_stack_pointer,
                             active_ram_region, overflow_checks) = stack_info
       /\ \A z \in EmptySections : \A k \in 0..Len(sections) :
            extract_stack_info(InsertAt(sections, k, z), initial_stack_pointer,
                               active_ram_region, overflow_checks) = stack_info

C9_Witness ==
    /\ pc = "done"
    /\ \E i \in 1..Len(sections) : ~NonEmpty(sections[i])
    /\ NonEmptyIdx # {}
    /\ stack_info.tag = "Some"
    /\ stack_info.data_below_stack

\* C10: throughout the section scan the candidate range's upper bound is
\* initial_stack_pointer - 1 and RAM.start <= low; each processed section
\* leaves low unchanged or raises it strictly to section.high + 1.
ProcessedHigh == (sections[idx].address + sections[idx].size - 1) % Modulus

ScanInvariant ==
    pc = "scan"
    => /\ stack_range.end = (initial_stack_pointer - 1) % Modulus
       /\ RamRange.start <= stack_range.start

ScanStepMonotone ==
    (pc = "scan" /\ pc' = "scan" /\ idx' = idx + 1)
    => /\ stack_range'.end = stack_range.end
       /\ \/ stack_range'.start = stack_range.start
          \/ /\ stack_range'.start = ProcessedHigh + 1
             /\ stack_range'.start > stack_range.start

C10_ScanMonotone == [](ScanInvariant) /\ [][ScanStepMonotone]_vars

C10_Witness ==
    /\ pc = "scan"
    /\ idx > 1
    /\ stack_range.start > RamRange.start

====
